---- MODULE Spec2Model ----
(***************************************************************************)
(* A model of the hoeffding_tree command-line program, mlpackMain() of     *)
(* src/mlpack/methods/hoeffding_trees/hoeffding_tree_main.cpp.             *)
(*                                                                         *)
(* The program is sequential.  pc is the block of mlpackMain() that runs   *)
(* next; the blocks run in the order given by ProgramOrder.  Presence of   *)
(* the parameters that decide the fatal checks is fixed in Init; every     *)
(* other parameter is drawn when the code reads it (CLI::GetParam,         *)
(* CLI::HasParam) and is kept in args from then on.                        *)
(*                                                                         *)
(* HoeffdingTreeModel (BuildModel, Train, Classify, NumNodes) is not part  *)
(* of the source file; its tree is modelled from the design document: a    *)
(* tree is the sample counts of its leaves (kept in nonincreasing order: a *)
(* leaf has no identity other than its count), an example is routed to     *)
(* some leaf, and the outcome of the Hoeffding test is a free boolean.     *)
(***************************************************************************)
EXTENDS Integers, Sequences, FiniteSets

\* ---------------------------------------------------------------- bounds
\* size_t arithmetic is modulo SizeMod (2^64 in the build).
SizeMod == 4
\* passes is drawn from -1 .. MaxPasses; MaxPasses < SizeMod - 1, as every
\* positive int is below 2^64 - 1.
MaxPasses == 2
\* A training set holds 1 .. MaxExamples examples.
MaxExamples == 2
\* Labels are drawn from 0 .. MaxLabel.
MaxLabel == 1
\* A tree grows to at most MaxLeaves leaves.
MaxLeaves == 3
\* min_samples is drawn from -1 .. MaxSamplesParam, max_samples from
\* 1 .. MaxSamplesParam.
MaxSamplesParam == 2

VARIABLES
  cli,            \* which parameters were passed, and numeric_split_strategy
  args,           \* the values of the parameters read so far
  pc,             \* the block of mlpackMain() that runs next
  model,          \* HoeffdingTreeModel model
  datasetInfo,    \* DatasetInfo datasetInfo
  labels,         \* arma::Row<size_t> labels
  batchTraining,  \* bool batchTraining
  passes,         \* size_t passes
  p,              \* the loop counter of the streaming passes
  i,              \* examples of the running streaming pass already observed
  log,            \* history: the calls made on the model, in order
  splits          \* history: the splits the latest pass step committed

vars == <<cli, args, pc, model, datasetInfo, labels, batchTraining, passes,
          p, i, log, splits>>

\* ------------------------------------------------------------ pure parts

\* (size_t) of an int.
ToSizeT(v) == v % SizeMod

Max(a, b) == IF a >= b THEN a ELSE b

RECURSIVE SeqMax(_)
\* arma::max(labels), labels not empty.
SeqMax(s) == IF Len(s) = 1 THEN s[1] ELSE Max(s[1], SeqMax(Tail(s)))

\* ------------------------------------------------ the order of the blocks

\* A variant of ProgramOrder that evaluates the training-set error before the
\* tree is trained.
ProgramOrderClassifyFirst ==
  <<"check", "model", "params", "trainerr", "build", "train", "numnodes",
    "test", "save", "done">>

\* The blocks of mlpackMain(), in the order of the text.
ProgramOrder ==
  <<"check", "model", "params", "build", "train", "trainerr", "numnodes",
    "test", "save", "done">>

NextPc(b) ==
  ProgramOrder[(CHOOSE k \in 1..(Len(ProgramOrder) - 1) : ProgramOrder[k] = b) + 1]

\* ----------------------------------------------------- parameter checks

\* A variant of RequireTrainingOrModel that lets every run through.
RequireTrainingOrModelNotFatal == TRUE

\* RequireAtLeastOnePassed({ "training", "input_model" }, true)
RequireTrainingOrModel == cli.training \/ cli.input_model

\* if (CLI::HasParam("training")) RequireOnlyOnePassed({ "labels" }, true)
RequireLabels == cli.training => cli.labels

\* RequireParamInSet<string>("numeric_split_strategy", ...), fatal
RequireStrategyInSet == cli.numeric_split_strategy \in {"domingos", "binary"}

\* The tree type the four-way if of the else branch constructs.
ModelType(infoGain, strategy) ==
  IF ~infoGain /\ strategy = "domingos" THEN "GINI_HOEFFDING"
  ELSE IF ~infoGain /\ strategy = "binary" THEN "GINI_BINARY"
  ELSE IF infoGain /\ strategy = "domingos" THEN "INFO_HOEFFDING"
  ELSE IF infoGain /\ strategy = "binary" THEN "INFO_BINARY"
  ELSE "default"

\* HoeffdingTreeModel model; a model with no tree.
EmptyModel ==
  [type |-> "default", built |-> FALSE, numClasses |-> 0, schema |-> "empty",
   confidence |-> 0, maxSamples |-> 0, minSamples |-> 0, leaves |-> <<>>]

\* The models input_model can hold: each was built by an earlier run, on a
\* schema and a number of classes of its own, and kept its configuration.
InputModels ==
  { [type |-> "GINI_BINARY", built |-> TRUE, numClasses |-> k, schema |-> s,
     confidence |-> 95, maxSamples |-> MaxSamplesParam + 1,
     minSamples |-> MaxSamplesParam, leaves |-> <<1>>] :
       k \in 1..(MaxLabel + 1), s \in {"A", "B"} }

\* The schemas the loader can infer from a training file.
TrainingSchemas == {"A"}

\* The label rows the loader can supply: 1 .. MaxExamples labels, the last
\* of them any class and the others class 0.
LabelRows ==
  { [e \in 1..n |-> IF e = n THEN l ELSE 0] : n \in 1..MaxExamples, l \in 0..MaxLabel }

\* A variant of BatchTrainingFlag that keeps the flag whatever passes is.
BatchTrainingFlagKept(batchMode, ps) == batchMode

\* bool batchTraining = HasParam("batch_mode"); if (passes > 1) batchTraining = false;
BatchTrainingFlag(batchMode, ps) == IF ps > 1 THEN FALSE ELSE batchMode

\* A variant of DecrementPasses that forgets the decrement.
DecrementPassesForgotten(ps) == ps

\* --passes; on a size_t
DecrementPasses(ps) == (ps - 1) % SizeMod

\* A variant of BuildModelConfig with maxSamples and minSamples exchanged.
BuildModelConfigSwapped(m, info, numClasses) ==
  [m EXCEPT !.numClasses = numClasses, !.schema = info,
            !.confidence = args.confidence,
            !.maxSamples = ToSizeT(args.min_samples),
            !.minSamples = ToSizeT(args.max_samples)]

\* What model.BuildModel(trainingSet, datasetInfo, labels, numClasses,
\* batchTraining, confidence, maxSamples, 100, minSamples, ...) hands to m.
BuildModelConfig(m, info, numClasses) ==
  [m EXCEPT !.numClasses = numClasses, !.schema = info,
            !.confidence = args.confidence,
            !.maxSamples = ToSizeT(args.max_samples),
            !.minSamples = ToSizeT(args.min_samples)]

\* ------------------------------------------------------- the tree (design)

\* Whether MaybeSplit commits a split at a leaf that has seen n examples;
\* boundMet is the outcome of the Hoeffding test (or of the tie test).
MaybeSplit(m, n, boundMet) ==
  n >= m.minSamples /\ (boundMet \/ n >= m.maxSamples)

RECURSIVE Insert(_, _)
\* The nonincreasing sequence s with the count x added.
Insert(x, s) ==
  IF s = <<>> THEN <<x>>
  ELSE IF x >= Head(s) THEN <<x>> \o s
  ELSE <<Head(s)>> \o Insert(x, Tail(s))

RECURSIVE Sorted(_)
\* The counts of s in nonincreasing order.
Sorted(s) == IF s = <<>> THEN <<>> ELSE Insert(Head(s), Sorted(Tail(s)))

\* Leaf j has observed one more example.
Observe(leaves, j) == Sorted([leaves EXCEPT ![j] = @ + 1])

\* Leaf j replaced by an internal node with two fresh leaves.
CommitSplit(leaves, j) ==
  SubSeq(leaves, 1, j - 1) \o SubSeq(leaves, j + 1, Len(leaves)) \o <<0, 0>>

RECURSIVE Rebuild(_, _, _)
\* The leaves after a batch pass: counts with every leaf of commit split.
Rebuild(counts, commit, j) ==
  IF j > Len(counts) THEN <<>>
  ELSE Sorted((IF j \in commit THEN <<0, 0>> ELSE <<counts[j]>>)
                \o Rebuild(counts, commit, j + 1))

\* Classify is a pure read path: the model after it.
Classify(m) == m

\* NumNodes of a tree of binary splits.
NumNodes(m) == IF Len(m.leaves) = 0 THEN 0 ELSE 2 * Len(m.leaves) - 1

\* ------------------------------------------------------------- the log

Entry(op, batch, m, numClasses, maxLabel, info, after) ==
  [op |-> op, batch |-> batch, built |-> m.built, numClasses |-> numClasses,
   maxLabel |-> maxLabel, info |-> info, modelSchema |-> m.schema,
   before |-> IF op \in {"ClassifyTraining", "ClassifyTest"}
                THEN m.leaves ELSE <<>>,
   after |-> after]

Calls(ops) == { k \in 1..Len(log) : log[k].op \in ops }

\* ------------------------------------------------------------------ Init

Init ==
  /\ cli \in [training : BOOLEAN, input_model : BOOLEAN, labels : BOOLEAN,
              numeric_split_strategy : {"domingos", "binary", "other"}]
  /\ args = [info_gain |-> FALSE, batch_mode |-> FALSE, passes |-> 1,
             confidence |-> 95, max_samples |-> 1, min_samples |-> 1,
             test |-> FALSE]
  /\ pc = "check"
  /\ model = EmptyModel
  /\ datasetInfo = "empty"
  /\ labels = <<>>
  /\ batchTraining = FALSE
  /\ passes = 0
  /\ p = 0
  /\ i = 0
  /\ log = <<>>
  /\ splits = {}

\* --------------------------------------------------------------- actions

\* Lines 114-139: the fatal parameter checks.
CheckParams ==
  /\ pc = "check"
  /\ pc' = IF RequireTrainingOrModel /\ RequireLabels /\ RequireStrategyInSet
             THEN NextPc("check") ELSE "failed"
  /\ UNCHANGED <<cli, args, model, datasetInfo, labels, batchTraining, passes,
                 p, i, log, splits>>

\* Lines 146-149: model = std::move(GetParam<HoeffdingTreeModel>("input_model")).
LoadInputModel ==
  /\ pc = "model"
  /\ cli.input_model
  /\ \E m \in InputModels :
       /\ model' = m
       /\ log' = Append(log, Entry("LoadInputModel", FALSE, m, m.numClasses,
                                   0, m.schema, <<>>))
  /\ pc' = NextPc("model")
  /\ UNCHANGED <<cli, args, datasetInfo, labels, batchTraining, passes, p, i,
                 splits>>

\* Lines 150-161: a new model of the type the flags select.
InitModel ==
  /\ pc = "model"
  /\ ~cli.input_model
  /\ \E ig \in BOOLEAN :
       /\ args' = [args EXCEPT !.info_gain = ig]
       /\ model' = [EmptyModel EXCEPT
                      !.type = ModelType(ig, cli.numeric_split_strategy)]
  /\ pc' = NextPc("model")
  /\ UNCHANGED <<cli, datasetInfo, labels, batchTraining, passes, p, i, log,
                 splits>>

\* Lines 164-185: the training parameters, the training set and its labels.
LoadTrainingParams ==
  /\ pc = "params"
  /\ cli.training
  /\ \E conf \in {50, 150}, maxS \in 1..MaxSamplesParam,
        minS \in {-1} \cup (1..MaxSamplesParam), bm \in BOOLEAN,
        ps \in (-1)..MaxPasses :
       /\ args' = [args EXCEPT !.confidence = conf, !.max_samples = maxS,
                               !.min_samples = minS, !.batch_mode = bm,
                               !.passes = ps]
       /\ passes' = ToSizeT(ps)
       /\ batchTraining' = BatchTrainingFlag(bm, ToSizeT(ps))
  /\ datasetInfo' \in TrainingSchemas
  /\ labels' \in LabelRows
  /\ pc' = NextPc("params")
  /\ UNCHANGED <<cli, model, p, i, log, splits>>

\* One example of a streaming pass over the model m: Descend to a leaf,
\* Observe, then MaybeSplit on that leaf.
ObserveExample(m) ==
  \E j \in 1..Len(m.leaves), boundMet \in BOOLEAN :
    LET n == m.leaves[j] + 1
        commit == MaybeSplit(m, n, boundMet) /\ Len(m.leaves) < MaxLeaves
    IN /\ model' = [m EXCEPT !.leaves =
                      IF commit THEN CommitSplit(m.leaves, j)
                      ELSE Observe(m.leaves, j)]
       /\ splits' = IF commit THEN {[n |-> n, min |-> m.minSamples]} ELSE {}

\* One batch pass over the model m: every example is observed at the leaf it
\* reaches, then the splits are decided once per leaf.
ObserveBatch(m) ==
  \E route \in [1..Len(labels) -> 1..Len(m.leaves)] :
    LET counts == [j \in 1..Len(m.leaves) |->
                     m.leaves[j] + Cardinality({e \in 1..Len(labels) : route[e] = j})]
        room == MaxLeaves - Len(m.leaves)
        forced == {j \in 1..Len(counts) : MaybeSplit(m, counts[j], FALSE)}
        allowed == {j \in 1..Len(counts) : MaybeSplit(m, counts[j], TRUE)}
    IN \E commit \in SUBSET allowed :
         /\ Cardinality(commit) <= room
         /\ forced \subseteq commit \/ Cardinality(commit) = room
         /\ model' = [m EXCEPT !.leaves = Rebuild(counts, commit, 1)]
         /\ splits' = {[n |-> counts[j], min |-> m.minSamples] : j \in commit}

\* Lines 194-201, batchTraining: BuildModel in batch mode, then --passes.
BuildModelBatch ==
  /\ pc = "build"
  /\ cli.training /\ ~cli.input_model
  /\ batchTraining
  /\ LET numClasses == (SeqMax(labels) + 1) % SizeMod
         m == [BuildModelConfig(model, datasetInfo, numClasses) EXCEPT
                 !.leaves = <<0>>]
     IN /\ log' = Append(log, Entry("BuildModel", TRUE, model, numClasses,
                                    SeqMax(labels), datasetInfo, <<>>))
        /\ ObserveBatch([m EXCEPT !.built = TRUE])
  /\ passes' = DecrementPasses(passes)
  /\ pc' = NextPc("build")
  /\ UNCHANGED <<cli, args, datasetInfo, labels, batchTraining, p, i>>

\* Lines 194-201, streaming: BuildModel observes example i + 1; after the last
\* one the model is built and passes is decremented.
BuildModelStream ==
  /\ pc = "build"
  /\ cli.training /\ ~cli.input_model
  /\ ~batchTraining
  /\ LET numClasses == (SeqMax(labels) + 1) % SizeMod
         last == i + 1 = Len(labels)
         m0 == IF i = 0
                 THEN [BuildModelConfig(model, datasetInfo, numClasses) EXCEPT
                         !.leaves = <<0>>]
                 ELSE model
         m == [m0 EXCEPT !.built = last]
     IN /\ log' = IF i = 0
                    THEN Append(log, Entry("BuildModel", FALSE, model, numClasses,
                                           SeqMax(labels), datasetInfo, <<>>))
                    ELSE log
        /\ ObserveExample(m)
        /\ i' = IF last THEN 0 ELSE i + 1
        /\ passes' = IF last THEN DecrementPasses(passes) ELSE passes
        /\ pc' = IF last THEN NextPc("build") ELSE pc
  /\ UNCHANGED <<cli, args, datasetInfo, labels, batchTraining, p>>

\* Lines 204-210: batchTraining; Train(trainingSet, labels, true) only when
\* BuildModel was not called.
TrainBatch ==
  /\ pc = "train"
  /\ cli.training
  /\ batchTraining
  /\ IF cli.input_model
       THEN /\ log' = Append(log, Entry("Train", TRUE, model, model.numClasses,
                                        SeqMax(labels), datasetInfo, <<>>))
            /\ ObserveBatch(model)
       ELSE UNCHANGED <<log, model, splits>>
  /\ pc' = NextPc("train")
  /\ UNCHANGED <<cli, args, datasetInfo, labels, batchTraining, passes, p, i>>

\* Lines 213-214, p < passes: Train(trainingSet, labels, false) observes
\* example i + 1; after the last one, ++p.
TrainStream ==
  /\ pc = "train"
  /\ cli.training
  /\ ~batchTraining
  /\ p < passes
  /\ log' = IF i = 0
              THEN Append(log, Entry("Train", FALSE, model, model.numClasses,
                                     SeqMax(labels), datasetInfo, <<>>))
              ELSE log
  /\ ObserveExample(model)
  /\ i' = IF i + 1 = Len(labels) THEN 0 ELSE i + 1
  /\ p' = IF i + 1 = Len(labels) THEN p + 1 ELSE p
  /\ UNCHANGED <<cli, args, pc, datasetInfo, labels, batchTraining, passes>>

\* Line 213, p >= passes: the loop ends.
TrainDone ==
  /\ pc = "train"
  /\ cli.training
  /\ ~batchTraining
  /\ p >= passes
  /\ pc' = NextPc("train")
  /\ UNCHANGED <<cli, args, model, datasetInfo, labels, batchTraining, passes,
                 p, i, log, splits>>

\* Lines 221-235: model.Classify(trainingSet, predictions).
ClassifyTraining ==
  /\ pc = "trainerr"
  /\ cli.training
  /\ model' = Classify(model)
  /\ log' = Append(log, Entry("ClassifyTraining", FALSE, model, model.numClasses,
                              0, datasetInfo, model'.leaves))
  /\ pc' = NextPc("trainerr")
  /\ UNCHANGED <<cli, args, datasetInfo, labels, batchTraining, passes, p, i,
                 splits>>

\* The if of a block is false: lines 164, 194 and 221.
SkipBlock ==
  /\ \/ pc \in {"params", "train", "trainerr"} /\ ~cli.training
     \/ pc = "build" /\ ~(cli.training /\ ~cli.input_model)
  /\ pc' = NextPc(pc)
  /\ UNCHANGED <<cli, args, model, datasetInfo, labels, batchTraining, passes,
                 p, i, log, splits>>

\* Line 238: model.NumNodes().
ReportNumNodes ==
  /\ pc = "numnodes"
  /\ log' = Append(log, Entry("NumNodes", FALSE, model, NumNodes(model), 0,
                              datasetInfo, <<>>))
  /\ pc' = NextPc("numnodes")
  /\ UNCHANGED <<cli, args, model, datasetInfo, labels, batchTraining, passes,
                 p, i, splits>>

\* Lines 241-276: the test set is loaded under datasetInfo and classified.
ClassifyTest ==
  /\ pc = "test"
  /\ args' = [args EXCEPT !.test = TRUE]
  /\ model' = Classify(model)
  /\ log' = Append(log, Entry("ClassifyTest", FALSE, model, model.numClasses,
                              0, datasetInfo, model'.leaves))
  /\ pc' = NextPc("test")
  /\ UNCHANGED <<cli, datasetInfo, labels, batchTraining, passes, p, i, splits>>

\* Line 241, no test set.
NoTest ==
  /\ pc = "test"
  /\ pc' = NextPc("test")
  /\ UNCHANGED <<cli, args, model, datasetInfo, labels, batchTraining, passes,
                 p, i, log, splits>>

\* Lines 279-280: the model is moved to output_model when that was passed.
SaveModel ==
  /\ pc = "save"
  /\ pc' = NextPc("save")
  /\ UNCHANGED <<cli, args, model, datasetInfo, labels, batchTraining, passes,
                 p, i, log, splits>>

Next ==
  \/ CheckParams
  \/ LoadInputModel
  \/ InitModel
  \/ LoadTrainingParams
  \/ BuildModelBatch
  \/ BuildModelStream
  \/ TrainBatch
  \/ TrainStream
  \/ TrainDone
  \/ ClassifyTraining
  \/ SkipBlock
  \/ ReportNumNodes
  \/ ClassifyTest
  \/ NoTest
  \/ SaveModel

Spec == Init /\ [][Next]_vars

\* ---------------------------------------------------------------- claims

BuildCalls == Calls({"BuildModel"})
TrainCalls == Calls({"Train"})
TrainingCalls == Calls({"BuildModel", "Train"})
ClassifyCalls == Calls({"ClassifyTraining", "ClassifyTest"})

\* The training block (lines 164-218) has been left.
TrainingFinished == pc \in {"trainerr", "numnodes", "test", "save", "done"}

\* C1: when more than one pass is requested, no BuildModel and no Train call
\* is made with batch = true, whatever batch_mode and input_model are.
C1_MultiPassIsStreaming ==
  args.passes > 1 => \A k \in TrainingCalls : ~log[k].batch

\* C1 witness: batch_mode and two or more passes were given, and both
\* BuildModel and Train have been called.
C1_Witness ==
  /\ args.passes > 1 /\ args.batch_mode
  /\ BuildCalls # {} /\ TrainCalls # {}

\* C2: with passes >= 1, once training is over the passes made over the
\* training set (BuildModel is one, each Train is one) are exactly passes: a
\* new model has one BuildModel and passes - 1 Train calls, a loaded model has
\* no BuildModel and passes Train calls, and a batch pass is the only pass.
C2_PassesEqualPassCount ==
  (cli.training /\ TrainingFinished /\ args.passes >= 1) =>
    LET b == Cardinality(BuildCalls)
        t == Cardinality(TrainCalls)
        batch == {k \in TrainingCalls : log[k].batch}
    IN /\ b + t = args.passes
       /\ cli.input_model => b = 0 /\ t = args.passes
       /\ ~cli.input_model => b = 1 /\ t = args.passes - 1
       /\ batch # {} => b + t = 1 /\ args.passes = 1
       /\ batchTraining => Cardinality(batch) = 1

\* C2 witness: a loaded model was trained for more than one pass, and the run
\* is over.
C2_Witness ==
  /\ pc = "done" /\ cli.training /\ cli.input_model
  /\ args.passes > 1 /\ Cardinality(TrainCalls) = args.passes

\* The configuration read so far is one the design calls invalid.
InvalidConfiguration ==
  \/ ~(0 < args.confidence /\ args.confidence < 100)
  \/ args.min_samples > args.max_samples
  \/ cli.numeric_split_strategy \notin {"domingos", "binary"}

\* C3: a run with an invalid configuration (confidence outside (0,1),
\* min_samples above max_samples, an unknown split strategy) never calls
\* BuildModel or Train.
C3_InvalidConfigurationRejected ==
  InvalidConfiguration => TrainingCalls = {}

\* C4: every Classify call is made on a built model, after a BuildModel call
\* or after input_model was loaded; a run with neither a training set nor an
\* input model stops at the parameter checks, before Classify and NumNodes.
C4_NoClassifyOnUninitialized ==
  /\ \A k \in ClassifyCalls :
       /\ log[k].built
       /\ \E j \in 1..(k - 1) : log[j].op \in {"BuildModel", "LoadInputModel"}
  /\ (~cli.training /\ ~cli.input_model) =>
       /\ pc \in {"check", "failed"}
       /\ Calls({"ClassifyTraining", "ClassifyTest", "NumNodes"}) = {}

\* C4 witness: the test set was classified by a model built in this run.
C4_Witness ==
  /\ Calls({"ClassifyTest"}) # {}
  /\ ~cli.input_model /\ BuildCalls # {}

C6_TestSchemaIsModelSchema ==
  \A k \in Calls({"ClassifyTest"}) : log[k].info = log[k].modelSchema

\* C7: every label handed to BuildModel or Train is below the number of
\* classes of the model it is handed to.
C7_LabelsBelowNumClasses ==
  \A k \in TrainingCalls : log[k].maxLabel < log[k].numClasses

C10_PassCounterNeverWraps ==
  /\ passes <= Max(args.passes, 0)
  /\ Cardinality(TrainCalls) <= Max(args.passes, 0)

====
